---------------------------- MODULE Spec2Model ----------------------------
(***************************************************************************)
(* Proof-carrying-code checking of AArch64 VCode                           *)
(* (cranelift/codegen/src/isa/aarch64/pcc.rs).                             *)
(*                                                                         *)
(* The state is the per-register fact store of one function (vreg_fact),   *)
(* together with the last instruction handed to check(), the store before  *)
(* that call and the call's result.  One step is one call of check().      *)
(*                                                                         *)
(* The module also models CodeBuilder                                      *)
(* (crates/wasmtime/src/compile/code_builder.rs): `builder` is the         *)
(* builder's fields and `call` the last method called on it.               *)
(*                                                                         *)
(* 64-bit machine words are kept as four 16-bit chunks, least significant  *)
(* first, so that shifts by 16*k, OR, NOT and wrapping addition keep the   *)
(* width of u64.                                                           *)
(***************************************************************************)
EXTENDS Integers, Sequences, FiniteSets, TLC

VARIABLES facts, pre, inst, res, n, builder, call

vars == <<facts, pre, inst, res, n, builder, call>>

---------------------------------------------------------------------------
(* Bounds of the model. *)

\* Number of check() calls explored per function.
MaxSteps == 2

\* The virtual registers of the function.
Regs == {0, 1, 2}

---------------------------------------------------------------------------
(* u64 values as four 16-bit chunks. *)

Zero64 == <<0, 0, 0, 0>>

\* A small natural number as a u64.
U64(v) == <<v % 65536, v \div 65536, 0, 0>>

RECURSIVE BitOr16(_, _)
BitOr16(a, b) ==
    IF a = 0 THEN b
    ELSE IF b = 0 THEN a
    ELSE (IF a % 2 = 1 \/ b % 2 = 1 THEN 1 ELSE 0) + 2 * BitOr16(a \div 2, b \div 2)

\* a | b
Or64(a, b) == [i \in 1..4 |-> BitOr16(a[i], b[i])]

\* !a
Not64(a) == [i \in 1..4 |-> 65535 - a[i]]

\* a & m, where m is all-ones below bit `bits` (bits in {32, 64})
AndMask(a, bits) == IF bits = 64 THEN a ELSE <<a[1], a[2], 0, 0>>

\* u64::from(chunk) << (shift * 16)
ShiftChunk(chunk, shift) == [i \in 1..4 |-> IF i = shift + 1 THEN chunk ELSE 0]

\* v mod 2^w for w in {8, 16, 32, 64}
Trunc(v, w) ==
    CASE w = 8  -> <<v[1] % 256, 0, 0, 0>>
      [] w = 16 -> <<v[1], 0, 0, 0>>
      [] w = 32 -> <<v[1], v[2], 0, 0>>
      [] OTHER  -> v

\* wrapping 64-bit addition of two chunked values
Add64(a, b) ==
    LET s1 == a[1] + b[1]
        s2 == a[2] + b[2] + (s1 \div 65536)
        s3 == a[3] + b[3] + (s2 \div 65536)
        s4 == a[4] + b[4] + (s3 \div 65536)
    IN  <<s1 % 65536, s2 % 65536, s3 % 65536, s4 % 65536>>

\* v * 2^k, wrapping
RECURSIVE Shl64(_, _)
Shl64(v, k) == IF k = 0 THEN v ELSE Shl64(Add64(v, v), k - 1)

\* A small signed integer as a two's-complement u64.
Signed64(d) == IF d >= 0 THEN U64(d) ELSE <<65536 + d, 65535, 65535, 65535>>

\* v < 2^w
FitsIn(v, w) == Trunc(v, w) = v

\* log2 of a power of two in {1, 2, 4, 8, 16}
Log2(b) == CASE b = 1 -> 0 [] b = 2 -> 1 [] b = 4 -> 2 [] b = 8 -> 3 [] OTHER -> 4

---------------------------------------------------------------------------
(* Types (ir::types) and operand sizes. *)

TyBits(ty) ==
    CASE ty = "I8" -> 8 [] ty = "I16" -> 16 [] ty = "I32" -> 32 [] ty = "I64" -> 64
      [] ty = "F32" -> 32 [] ty = "F64" -> 64 [] ty = "I8X16" -> 128 [] OTHER -> 64

TyBytes(ty) == TyBits(ty) \div 8

\* OperandSize::bits
SizeBits(size) == IF size = "Size32" THEN 32 ELSE 64

---------------------------------------------------------------------------
(* Facts (ir::pcc::Fact) and the fact algebra (ir::pcc::FactContext).      *)
(* Absent facts (Option::None) are NoFact.                                 *)

NoFact == [k |-> "None"]

\* Fact::constant
Constant(w, v) == [k |-> "Const", w |-> w, v |-> v]

\* Fact::max_range_for_width
MaxRange(w) == [k |-> "Range", w |-> w]

\* A pointer into memory region `ty`.
Mem(ty) == [k |-> "Mem", ty |-> ty]

\* base plus a statically known signed delta.
Offset(base, delta) == [k |-> "Offset", base |-> base, delta |-> delta]

\* Declared extent, in bytes, of a memory region.
MemExtent(ty) == IF ty = "mt0" THEN 16 ELSE 8

\* Fact::propagates
propagates(f) == f.k \in {"Const", "Offset"}

\* Option<u64>
NoneU64 == [some |-> FALSE]
SomeU64(v) == [some |-> TRUE, v |-> v]

\* Fact::as_const: the value of a constant of exactly `bits` bits.
as_const(f, bits) == IF f.k = "Const" /\ f.w = bits THEN SomeU64(f.v) ELSE NoneU64

\* Fact::infer_from_type: the default fact of an integer type.
infer_from_type(ty) ==
    IF ty \in {"I8", "I16", "I32", "I64"} THEN MaxRange(TyBits(ty)) ELSE NoFact

\* FactContext::add
add(a, b, w) ==
    CASE a.k = "Const" /\ b.k = "Const" ->
           IF a.w = b.w /\ a.w <= w THEN Constant(a.w, Trunc(Add64(a.v, b.v), w)) ELSE NoFact
      [] a.k \in {"Const", "Range"} /\ b.k \in {"Const", "Range"} ->
           IF a.w <= w /\ b.w <= w THEN MaxRange(w) ELSE NoFact
      [] a.k = "Mem" /\ b.k = "Const" /\ w = 64 ->
           IF FitsIn(b.v, 16) THEN Offset(a, b.v[1]) ELSE NoFact
      [] a.k = "Offset" /\ b.k = "Const" /\ w = 64 ->
           IF FitsIn(b.v, 16) THEN Offset(a.base, a.delta + b.v[1]) ELSE NoFact
      [] OTHER -> NoFact

\* FactContext::shl
shl(a, w, amt) ==
    CASE a.k = "Const" -> IF a.w <= w THEN Constant(a.w, Trunc(Shl64(a.v, amt), w)) ELSE NoFact
      [] a.k = "Range" -> IF a.w <= w THEN MaxRange(w) ELSE NoFact
      [] OTHER -> NoFact

\* FactContext::scale
scale(a, w, bytes) == shl(a, w, Log2(bytes))

\* FactContext::offset
offset(a, w, delta) ==
    CASE a.k = "Const" -> IF a.w <= w THEN Constant(a.w, Trunc(Add64(a.v, Signed64(delta)), w)) ELSE NoFact
      [] a.k = "Range" -> IF a.w <= w THEN MaxRange(w) ELSE NoFact
      [] a.k = "Mem" -> Offset(a, delta)
      [] a.k = "Offset" -> Offset(a.base, a.delta + delta)
      [] OTHER -> NoFact

\* FactContext::uextend
uextend(a, from, to) ==
    CASE a.k = "Const" -> IF a.w = from THEN Constant(to, a.v) ELSE NoFact
      [] a.k = "Range" -> IF a.w <= from THEN MaxRange(from) ELSE NoFact
      [] OTHER -> NoFact

\* FactContext::sextend: only values whose sign bit is known clear.
sextend(a, from, to) ==
    CASE a.k = "Const" ->
           IF a.w = from /\ FitsIn(a.v, 8) /\ a.v[1] < 128 THEN Constant(to, a.v) ELSE NoFact
      [] OTHER -> NoFact

\* FactContext::subsumes
subsumes(c, d) ==
    \/ d.k = "Mem"
    \/ c = d
    \/ c.k = "Const" /\ d.k = "Range" /\ FitsIn(c.v, d.w)
    \/ c.k = "Range" /\ d.k = "Range" /\ c.w <= d.w

\* FactContext::subsumes_fact_optionals: an absent declared fact is no obligation.
subsumes_fact_optionals(derived, declared) ==
    declared = NoFact \/ subsumes(derived, declared)

\* PccResult
Ok(v) == [ok |-> TRUE, val |-> v]
Err(e) == [ok |-> FALSE, err |-> e]

\* Whether an access of type ty at the address fact is within its region.
InBounds(addr, ty) ==
    \/ addr.k = "Mem" /\ TyBytes(ty) <= MemExtent(addr.ty)
    \/ /\ addr.k = "Offset"
       /\ addr.base.k = "Mem"
       /\ addr.delta >= 0
       /\ addr.delta + TyBytes(ty) <= MemExtent(addr.base.ty)

\* FactContext::load
load(addr, ty) ==
    IF InBounds(addr, ty) THEN Ok(MaxRange(TyBits(ty))) ELSE Err("UnsupportedFact")

\* FactContext::store
store(addr, ty, stored) ==
    IF InBounds(addr, ty)
       /\ (stored = NoFact \/ stored.k = "Mem" \/ subsumes(stored, MaxRange(TyBits(ty))))
    THEN Ok("unit") ELSE Err("UnsupportedFact")

---------------------------------------------------------------------------
(* The verifier: cranelift/codegen/src/isa/aarch64/pcc.rs                  *)

\* VCode::vreg_type: the type of each virtual register of the function.
vreg_type(r) == CASE r % 3 = 0 -> "I64" [] r % 3 = 1 -> "I32" [] OTHER -> "R64"

\* The result of one verifier call: its PccResult and the fact store after it.
Result(r, fs) == [res |-> r, facts |-> fs]

\* Faulty variant: a register without a type default gets the 64-bit maximal range.
get_fact_or_default_max(fs, reg) ==
    IF fs[reg] # NoFact THEN Ok(fs[reg])
    ELSE IF infer_from_type(vreg_type(reg)) # NoFact THEN Ok(infer_from_type(vreg_type(reg)))
    ELSE Ok(MaxRange(64))

get_fact_or_default(fs, reg) ==
    IF fs[reg] # NoFact THEN Ok(fs[reg])
    ELSE IF infer_from_type(vreg_type(reg)) # NoFact THEN Ok(infer_from_type(vreg_type(reg)))
    ELSE Err("MissingFact")

\* Faulty variant: the guard does not look at the store.
has_fact_always(fs, reg) == TRUE

has_fact(fs, reg) == fs[reg] # NoFact

\* Faulty variant: an underivable fact is reported as a missing one.
fail_if_missing_as_missing(fact) == IF fact = NoFact THEN Err("MissingFact") ELSE Ok(fact)

fail_if_missing(fact) == IF fact = NoFact THEN Err("UnsupportedFact") ELSE Ok(fact)

\* Faulty variant: a stated Mem fact is satisfied by a Mem candidate only.
check_subsumes_mem_strict(subsumer, subsumee) ==
    IF subsumee.k = "Mem" THEN (IF subsumer.k = "Mem" THEN "Ok" ELSE "UnsupportedFact")
    ELSE IF subsumes(subsumer, subsumee) THEN "Ok"
    ELSE "UnsupportedFact"

\* Faulty variant: a fact does not satisfy a statement of that same fact.
check_subsumes_irreflexive(subsumer, subsumee) ==
    IF subsumee.k = "Mem" THEN "Ok"
    ELSE IF subsumer # subsumee /\ subsumes(subsumer, subsumee) THEN "Ok"
    ELSE "UnsupportedFact"

\* Faulty variant: two constants are compared by width only, not by value.
check_subsumes_by_width(subsumer, subsumee) ==
    IF subsumee.k = "Mem" THEN "Ok"
    ELSE IF subsumer.k = "Const" /\ subsumee.k = "Const" /\ subsumer.w = subsumee.w THEN "Ok"
    ELSE IF subsumes(subsumer, subsumee) THEN "Ok"
    ELSE "UnsupportedFact"

check_subsumes(subsumer, subsumee) ==
    IF subsumee.k = "Mem" THEN "Ok"
    ELSE IF subsumes(subsumer, subsumee) THEN "Ok"
    ELSE "UnsupportedFact"

\* Faulty variant: the 64-to-64 sign extension is the identity, like UXTX.
extend_fact_sxtx_identity(value, mode) ==
    CASE mode = "UXTB" -> uextend(value, 8, 64)
      [] mode = "UXTH" -> uextend(value, 16, 64)
      [] mode = "UXTW" -> uextend(value, 32, 64)
      [] mode = "UXTX" -> value
      [] mode = "SXTB" -> sextend(value, 8, 64)
      [] mode = "SXTH" -> sextend(value, 16, 64)
      [] mode = "SXTW" -> sextend(value, 32, 64)
      [] OTHER -> value

extend_fact(value, mode) ==
    CASE mode = "UXTB" -> uextend(value, 8, 64)
      [] mode = "UXTH" -> uextend(value, 16, 64)
      [] mode = "UXTW" -> uextend(value, 32, 64)
      [] mode = "UXTX" -> value
      [] mode = "SXTB" -> sextend(value, 8, 64)
      [] mode = "SXTH" -> sextend(value, 16, 64)
      [] mode = "SXTW" -> sextend(value, 32, 64)
      [] OTHER -> NoFact

\* Faulty variant: a declared fact is not compared with the derived one.
check_output_unchecked(fs, out, ins, f) ==
    IF fs[out] # NoFact THEN
        IF ~f.ok THEN Result(f.err, fs) ELSE Result("Ok", fs)
    ELSE IF \E r \in ins : fs[r] # NoFact /\ propagates(fs[r]) THEN
        IF f.ok THEN Result("Ok", [fs EXCEPT ![out] = f.val])
        ELSE Result("Ok", fs)
    ELSE Result("Ok", fs)

\* Faulty variant: a failed derivation is returned in the propagating case (`f(vcode)?`).
check_output_strict(fs, out, ins, f) ==
    IF fs[out] # NoFact THEN
        IF ~f.ok THEN Result(f.err, fs)
        ELSE Result(check_subsumes(f.val, fs[out]), fs)
    ELSE IF \E r \in ins : fs[r] # NoFact /\ propagates(fs[r]) THEN
        IF f.ok THEN Result("Ok", [fs EXCEPT ![out] = f.val])
        ELSE Result(f.err, fs)
    ELSE Result("Ok", fs)

\* Faulty variant: the derived fact is installed whether or not an input propagates.
check_output_eager(fs, out, ins, f) ==
    IF fs[out] # NoFact THEN
        IF ~f.ok THEN Result(f.err, fs)
        ELSE Result(check_subsumes(f.val, fs[out]), fs)
    ELSE IF f.ok THEN Result("Ok", [fs EXCEPT ![out] = f.val])
    ELSE Result("Ok", fs)

\* check_output; f is the value of the closure f(vcode), which reads the store only.
check_output(fs, out, ins, f) ==
    IF fs[out] # NoFact THEN
        IF ~f.ok THEN Result(f.err, fs)
        ELSE Result(check_subsumes(f.val, fs[out]), fs)
    ELSE IF \E r \in ins : fs[r] # NoFact /\ propagates(fs[r]) THEN
        IF f.ok THEN Result("Ok", [fs EXCEPT ![out] = f.val])
        ELSE Result("Ok", fs)
    ELSE Result("Ok", fs)

\* The closure check_unop hands to check_output.
unop_closure(fs, ra, F(_)) ==
    LET a == get_fact_or_default(fs, ra)
    IN  IF ~a.ok THEN a ELSE F(a.val)

check_unop(fs, out, ra, F(_)) ==
    check_output(fs, out, {ra}, unop_closure(fs, ra, F))

\* The closure check_binop hands to check_output.
binop_closure(fs, ra, rb, F(_, _)) ==
    LET a == get_fact_or_default(fs, ra)
        b == get_fact_or_default(fs, rb)
    IN  IF ~a.ok THEN a ELSE IF ~b.ok THEN b ELSE F(a.val, b.val)

check_binop(fs, out, ra, rb, F(_, _)) ==
    check_output(fs, out, {ra, rb}, binop_closure(fs, ra, rb, F))

\* Faulty variant: the constant is set without looking for an existing fact.
check_constant_overwrite(fs, out, bit_width, value) ==
    Result("Ok", [fs EXCEPT ![out] = Constant(bit_width, value)])

\* Faulty variant: the constant is set before it is compared with the existing fact.
check_constant_set_first(fs, out, bit_width, value) ==
    LET result == Constant(bit_width, value)
    IN  IF fs[out] # NoFact
        THEN Result(check_subsumes(result, fs[out]), [fs EXCEPT ![out] = result])
        ELSE Result("Ok", [fs EXCEPT ![out] = result])

check_constant(fs, out, bit_width, value) ==
    LET result == Constant(bit_width, value)
    IN  IF fs[out] # NoFact THEN Result(check_subsumes(result, fs[out]), fs)
        ELSE Result("Ok", [fs EXCEPT ![out] = result])

\* Option<Reg>::None
NoReg == [none |-> TRUE]

\* rd.and_then(|rd| vcode.vreg_fact(rd.into()))
OptRegFact(fs, rd) == IF rd = NoReg THEN NoFact ELSE fs[rd.reg]

SomeReg(r) == [none |-> FALSE, reg |-> r]

\* The closure `check` of check_addr: the access through the derived address fact.
addr_check(addr, ty, op) ==
    IF op.kind = "Load" THEN
        LET loaded_fact == load(addr, ty)
        IN  IF ~loaded_fact.ok THEN loaded_fact.err
            ELSE IF subsumes_fact_optionals(loaded_fact.val, op.fact) THEN "Ok"
            ELSE "UnsupportedFact"
    ELSE
        LET stored == store(addr, ty, op.fact)
        IN  IF stored.ok THEN "Ok" ELSE stored.err

\* Faulty variant: the unsigned immediate is multiplied again by an 8-byte element size.
addr_fact_rescaled(fs, addr) ==
    LET rn == get_fact_or_default(fs, addr.rn)
    IN  IF ~rn.ok THEN rn
        ELSE CASE addr.m = "RegReg" ->
                    LET rm == get_fact_or_default(fs, addr.rm)
                    IN  IF ~rm.ok THEN rm ELSE fail_if_missing(add(rn.val, rm.val, 64))
               [] addr.m = "RegScaled" ->
                    LET rm == get_fact_or_default(fs, addr.rm)
                    IN  IF ~rm.ok THEN rm
                        ELSE LET rm_scaled == fail_if_missing(scale(rm.val, 64, TyBytes(addr.ty)))
                             IN  IF ~rm_scaled.ok THEN rm_scaled
                                 ELSE fail_if_missing(add(rn.val, rm_scaled.val, 64))
               [] addr.m = "RegScaledExtended" ->
                    LET rm == get_fact_or_default(fs, addr.rm)
                    IN  IF ~rm.ok THEN rm
                        ELSE LET rm_extended == fail_if_missing(extend_fact(rm.val, addr.extendop))
                             IN  IF ~rm_extended.ok THEN rm_extended
                                 ELSE LET rm_scaled == fail_if_missing(
                                              scale(rm_extended.val, 64, TyBytes(addr.ty)))
                                      IN  IF ~rm_scaled.ok THEN rm_scaled
                                          ELSE fail_if_missing(add(rn.val, rm_scaled.val, 64))
               [] addr.m = "RegExtended" ->
                    LET rm == get_fact_or_default(fs, addr.rm)
                    IN  IF ~rm.ok THEN rm
                        ELSE LET rm_extended == fail_if_missing(extend_fact(rm.val, addr.extendop))
                             IN  IF ~rm_extended.ok THEN rm_extended
                                 ELSE fail_if_missing(add(rn.val, rm_extended.val, 64))
               [] addr.m = "Unscaled" -> fail_if_missing(offset(rn.val, 64, addr.simm9))
               [] addr.m = "UnsignedOffset" -> fail_if_missing(offset(rn.val, 64, addr.uimm12 * 8))
               [] OTHER -> fail_if_missing(offset(rn.val, 64, addr.off))

\* The address fact check_addr derives for a register-based addressing mode.
addr_fact(fs, addr) ==
    LET rn == get_fact_or_default(fs, addr.rn)
    IN  IF ~rn.ok THEN rn
        ELSE CASE addr.m = "RegReg" ->
                    LET rm == get_fact_or_default(fs, addr.rm)
                    IN  IF ~rm.ok THEN rm ELSE fail_if_missing(add(rn.val, rm.val, 64))
               [] addr.m = "RegScaled" ->
                    LET rm == get_fact_or_default(fs, addr.rm)
                    IN  IF ~rm.ok THEN rm
                        ELSE LET rm_scaled == fail_if_missing(scale(rm.val, 64, TyBytes(addr.ty)))
                             IN  IF ~rm_scaled.ok THEN rm_scaled
                                 ELSE fail_if_missing(add(rn.val, rm_scaled.val, 64))
               [] addr.m = "RegScaledExtended" ->
                    LET rm == get_fact_or_default(fs, addr.rm)
                    IN  IF ~rm.ok THEN rm
                        ELSE LET rm_extended == fail_if_missing(extend_fact(rm.val, addr.extendop))
                             IN  IF ~rm_extended.ok THEN rm_extended
                                 ELSE LET rm_scaled == fail_if_missing(
                                              scale(rm_extended.val, 64, TyBytes(addr.ty)))
                                      IN  IF ~rm_scaled.ok THEN rm_scaled
                                          ELSE fail_if_missing(add(rn.val, rm_scaled.val, 64))
               [] addr.m = "RegExtended" ->
                    LET rm == get_fact_or_default(fs, addr.rm)
                    IN  IF ~rm.ok THEN rm
                        ELSE LET rm_extended == fail_if_missing(extend_fact(rm.val, addr.extendop))
                             IN  IF ~rm_extended.ok THEN rm_extended
                                 ELSE fail_if_missing(add(rn.val, rm_extended.val, 64))
               [] addr.m = "Unscaled" -> fail_if_missing(offset(rn.val, 64, addr.simm9))
               [] addr.m = "UnsignedOffset" -> fail_if_missing(offset(rn.val, 64, addr.uimm12))
               [] OTHER -> fail_if_missing(offset(rn.val, 64, addr.off))

\* AMode variants that name a base register.
RegModes == {"RegReg", "RegScaled", "RegScaledExtended", "RegExtended",
             "Unscaled", "UnsignedOffset", "RegOffset"}

\* AMode variants check_addr accepts without looking at any fact.
TrustedModes == {"Label", "Const", "SPOffset", "FPOffset", "NominalSPOffset",
                 "SPPostIndexed", "SPPreIndexed"}

\* The type the access is checked at: RegScaled and RegScaledExtended bind
\* their own `ty`, which shadows the parameter.
addr_ty(addr, ty) == IF addr.m \in {"RegScaled", "RegScaledExtended"} THEN addr.ty ELSE ty

\* Faulty variant: the `checked` flag is not consulted.
check_addr_no_escape(fs, checked, addr, ty, op) ==
    IF addr.m \in TrustedModes THEN "Ok"
    ELSE LET sum == addr_fact(fs, addr)
         IN  IF ~sum.ok THEN sum.err ELSE addr_check(sum.val, addr_ty(addr, ty), op)

\* Faulty variant: only labels and constants are trusted; stack forms need a base fact.
check_addr_stack(fs, checked, addr, ty, op) ==
    IF ~checked THEN "Ok"
    ELSE IF addr.m \in {"Label", "Const"} THEN "Ok"
    ELSE IF addr.m \in TrustedModes THEN "MissingFact"
    ELSE LET sum == addr_fact(fs, addr)
         IN  IF ~sum.ok THEN sum.err ELSE addr_check(sum.val, addr_ty(addr, ty), op)

check_addr(fs, checked, addr, ty, op) ==
    IF ~checked THEN "Ok"
    ELSE IF addr.m \in TrustedModes THEN "Ok"
    ELSE LET sum == addr_fact(fs, addr)
         IN  IF ~sum.ok THEN sum.err ELSE addr_check(sum.val, addr_ty(addr, ty), op)

\* Faulty variant: the destination's fact is not handed to check_addr.
check_load_no_dest(fs, rd, checked, addr, ty) ==
    check_addr(fs, checked, addr, ty, [kind |-> "Load", fact |-> NoFact])

check_load(fs, rd, checked, addr, ty) ==
    check_addr(fs, checked, addr, ty, [kind |-> "Load", fact |-> OptRegFact(fs, rd)])

\* Faulty variant: the stored register's fact is not handed to check_addr.
check_store_no_fact(fs, rd, checked, addr, ty) ==
    check_addr(fs, checked, addr, ty, [kind |-> "Store", fact |-> NoFact])

check_store(fs, rd, checked, addr, ty) ==
    check_addr(fs, checked, addr, ty, [kind |-> "Store", fact |-> OptRegFact(fs, rd)])

\* Faulty variant: an unchecked pair load is let through like the other loads.
check_load_pair_unchecked(fs, checked, addr, size) ==
    IF ~checked THEN "Ok" ELSE "UnimplementedInst"

check_load_pair(fs, checked, addr, size) == "UnimplementedInst"

check_store_pair(fs, checked, addr, size) == "UnimplementedInst"

check_load_addr(fs, checked, reg, ty) ==
    IF ~checked THEN "Ok"
    ELSE LET fact == get_fact_or_default(fs, reg)
         IN  IF ~fact.ok THEN fact.err
             ELSE LET output_fact == load(fact.val, ty)
                  IN  IF ~output_fact.ok THEN output_fact.err ELSE "Ok"

check_store_addr(fs, checked, reg, ty) ==
    IF ~checked THEN "Ok"
    ELSE LET fact == get_fact_or_default(fs, reg)
         IN  IF ~fact.ok THEN fact.err
             ELSE LET output_fact == store(fact.val, ty, NoFact)
                  IN  IF ~output_fact.ok THEN output_fact.err ELSE "Ok"

---------------------------------------------------------------------------
(* Instructions (isa::aarch64::inst::Inst), as records tagged by `op`.     *)

IntLoadOps == {"ULoad8", "SLoad8", "ULoad16", "SLoad16", "ULoad32", "SLoad32", "ULoad64"}
FpuLoadOps == {"FpuLoad32", "FpuLoad64", "FpuLoad128"}
LoadPairOps == {"LoadP64", "FpuLoadP64", "FpuLoadP128"}
LoadAddrOps == {"VecLoadReplicate", "LoadAcquire"}
IntStoreOps == {"Store8", "Store16", "Store32", "Store64"}
FpuStoreOps == {"FpuStore32", "FpuStore64", "FpuStore128"}
StorePairOps == {"StoreP64", "FpuStoreP64", "FpuStoreP128"}
AluOps == {"AluRRR", "AluRRImm12", "AluRRRShift", "AluRRRExtend", "AluRRImmLogic",
           "AluRRImmShift"}

\* The access type check() passes for each typed load or store.
AccessTy(op) ==
    CASE op \in {"ULoad8", "SLoad8", "Store8"} -> "I8"
      [] op \in {"ULoad16", "SLoad16", "Store16"} -> "I16"
      [] op \in {"ULoad32", "SLoad32", "Store32"} -> "I32"
      [] op \in {"ULoad64", "Store64"} -> "I64"
      [] op \in {"FpuLoad32", "FpuStore32"} -> "F32"
      [] op \in {"FpuLoad64", "FpuStore64"} -> "F64"
      [] OTHER -> "I8X16"

\* The size check() passes for each pair load or store.
PairSize(op) == IF op \in {"FpuLoadP128", "FpuStoreP128"} THEN 32 ELSE 16

\* VCode::inst_defines_facts: some register the instruction defines carries a fact.
inst_defines_facts(fs, i) == \E r \in i.defs : fs[r] # NoFact

\* Faulty variant: an instruction without a rule is accepted even when it
\* defines a register that carries a fact.
Arm_fail_open(fs, i) ==
    IF i.op = "Args" THEN "Args"
    ELSE IF i.op \in IntLoadOps THEN "IntLoad"
    ELSE IF i.op \in FpuLoadOps THEN "FpuLoad"
    ELSE IF i.op \in LoadPairOps THEN "LoadPair"
    ELSE IF i.op \in LoadAddrOps THEN "LoadAddr"
    ELSE IF i.op \in IntStoreOps THEN "IntStore"
    ELSE IF i.op \in FpuStoreOps THEN "FpuStore"
    ELSE IF i.op \in StorePairOps THEN "StorePair"
    ELSE IF i.op = "StoreRelease" THEN "StoreAddr"
    ELSE IF i.op = "AluRRR" /\ i.alu_op = "Add" THEN "AddRRR"
    ELSE IF i.op = "AluRRImm12" /\ i.alu_op = "Add" THEN "AddImm12"
    ELSE IF i.op = "AluRRRShift" /\ i.alu_op = "Add" /\ i.shiftop.op = "LSL"
            /\ has_fact(fs, i.rn) /\ has_fact(fs, i.rm) THEN "AddShift"
    ELSE IF i.op = "AluRRRExtend" /\ i.alu_op = "Add"
            /\ has_fact(fs, i.rn) /\ has_fact(fs, i.rm) THEN "AddExtend"
    ELSE IF i.op = "AluRRImmShift" /\ i.alu_op = "Lsl" /\ has_fact(fs, i.rn) THEN "Lsl"
    ELSE IF i.op = "Extend" /\ ~i.signed /\ has_fact(fs, i.rn) THEN "Uextend"
    ELSE IF i.op \in AluOps THEN "AluFallback"
    ELSE IF i.op = "MovWide" /\ i.mop = "MovZ" THEN "MovZ"
    ELSE IF i.op = "MovWide" /\ i.mop = "MovN" THEN "MovN"
    ELSE IF i.op = "MovK" THEN "MovK"
    ELSE "Accept"

\* Faulty variant: the zero-extension rule is taken whether or not its operand
\* carries a fact.
Arm_extend_unguarded(fs, i) ==
    IF i.op = "Args" THEN "Args"
    ELSE IF i.op \in IntLoadOps THEN "IntLoad"
    ELSE IF i.op \in FpuLoadOps THEN "FpuLoad"
    ELSE IF i.op \in LoadPairOps THEN "LoadPair"
    ELSE IF i.op \in LoadAddrOps THEN "LoadAddr"
    ELSE IF i.op \in IntStoreOps THEN "IntStore"
    ELSE IF i.op \in FpuStoreOps THEN "FpuStore"
    ELSE IF i.op \in StorePairOps THEN "StorePair"
    ELSE IF i.op = "StoreRelease" THEN "StoreAddr"
    ELSE IF i.op = "AluRRR" /\ i.alu_op = "Add" THEN "AddRRR"
    ELSE IF i.op = "AluRRImm12" /\ i.alu_op = "Add" THEN "AddImm12"
    ELSE IF i.op = "AluRRRShift" /\ i.alu_op = "Add" /\ i.shiftop.op = "LSL"
            /\ has_fact(fs, i.rn) /\ has_fact(fs, i.rm) THEN "AddShift"
    ELSE IF i.op = "AluRRRExtend" /\ i.alu_op = "Add"
            /\ has_fact(fs, i.rn) /\ has_fact(fs, i.rm) THEN "AddExtend"
    ELSE IF i.op = "AluRRImmShift" /\ i.alu_op = "Lsl" /\ has_fact(fs, i.rn) THEN "Lsl"
    ELSE IF i.op = "Extend" /\ ~i.signed THEN "Uextend"
    ELSE IF i.op \in AluOps THEN "AluFallback"
    ELSE IF i.op = "MovWide" /\ i.mop = "MovZ" THEN "MovZ"
    ELSE IF i.op = "MovWide" /\ i.mop = "MovN" THEN "MovN"
    ELSE IF i.op = "MovK" THEN "MovK"
    ELSE IF inst_defines_facts(fs, i) THEN "DefinesFacts"
    ELSE "Accept"

\* The arm of check()'s match that the instruction takes, in the order of the source.
Arm(fs, i) ==
    IF i.op = "Args" THEN "Args"
    ELSE IF i.op \in IntLoadOps THEN "IntLoad"
    ELSE IF i.op \in FpuLoadOps THEN "FpuLoad"
    ELSE IF i.op \in LoadPairOps THEN "LoadPair"
    ELSE IF i.op \in LoadAddrOps THEN "LoadAddr"
    ELSE IF i.op \in IntStoreOps THEN "IntStore"
    ELSE IF i.op \in FpuStoreOps THEN "FpuStore"
    ELSE IF i.op \in StorePairOps THEN "StorePair"
    ELSE IF i.op = "StoreRelease" THEN "StoreAddr"
    ELSE IF i.op = "AluRRR" /\ i.alu_op = "Add" THEN "AddRRR"
    ELSE IF i.op = "AluRRImm12" /\ i.alu_op = "Add" THEN "AddImm12"
    ELSE IF i.op = "AluRRRShift" /\ i.alu_op = "Add" /\ i.shiftop.op = "LSL"
            /\ has_fact(fs, i.rn) /\ has_fact(fs, i.rm) THEN "AddShift"
    ELSE IF i.op = "AluRRRExtend" /\ i.alu_op = "Add"
            /\ has_fact(fs, i.rn) /\ has_fact(fs, i.rm) THEN "AddExtend"
    ELSE IF i.op = "AluRRImmShift" /\ i.alu_op = "Lsl" /\ has_fact(fs, i.rn) THEN "Lsl"
    ELSE IF i.op = "Extend" /\ ~i.signed /\ has_fact(fs, i.rn) THEN "Uextend"
    ELSE IF i.op \in AluOps THEN "AluFallback"
    ELSE IF i.op = "MovWide" /\ i.mop = "MovZ" THEN "MovZ"
    ELSE IF i.op = "MovWide" /\ i.mop = "MovN" THEN "MovN"
    ELSE IF i.op = "MovK" THEN "MovK"
    ELSE IF inst_defines_facts(fs, i) THEN "DefinesFacts"
    ELSE "Accept"

\* Faulty variant: a sum the algebra cannot derive falls back to the maximal range.
add_rrr_clamped(i, rn, rm) ==
    IF add(rn, rm, SizeBits(i.size)) = NoFact THEN Ok(MaxRange(SizeBits(i.size)))
    ELSE Ok(add(rn, rm, SizeBits(i.size)))

\* The derivations the ALU arms hand to check_binop and check_unop.
add_rrr(i, rn, rm) == fail_if_missing(add(rn, rm, SizeBits(i.size)))

\* Faulty variant: the immediate's constant is always 64 bits wide.
add_imm12_wide(i, rn) ==
    LET imm_fact == Constant(64, U64(i.imm12))
    IN  fail_if_missing(add(rn, imm_fact, SizeBits(i.size)))

add_imm12(i, rn) ==
    LET imm_fact == Constant(SizeBits(i.size), U64(i.imm12))
    IN  fail_if_missing(add(rn, imm_fact, SizeBits(i.size)))

add_shift(i, rn, rm) ==
    LET rm_shifted == fail_if_missing(shl(rm, SizeBits(i.size), i.shiftop.amt))
    IN  IF ~rm_shifted.ok THEN rm_shifted
        ELSE fail_if_missing(add(rn, rm_shifted.val, SizeBits(i.size)))

add_extend(i, rn, rm) ==
    LET rm_extended == fail_if_missing(extend_fact(rm, i.extendop))
    IN  IF ~rm_extended.ok THEN rm_extended
        ELSE fail_if_missing(add(rn, rm_extended.val, SizeBits(i.size)))

lsl_imm(i, rn) == fail_if_missing(shl(rn, SizeBits(i.size), i.immshift))

uextend_rule(i, rn) == fail_if_missing(uextend(rn, i.from_bits, i.to_bits))

\* Faulty variant: the fallback passes the instruction's first operand as input.
fallback_ins_operand(i) == {i.rn}

\* The input slice `&[]` the ALU fallback arm passes to check_output.
fallback_ins(i) == {}

\* u64::from(imm.bits) << (imm.shift * 16)
movz_constant(i) == ShiftChunk(i.imm.bits, i.imm.shift)

\* Faulty variant: the complement is not masked to the operand size.
movn_constant_unmasked(i) == Not64(ShiftChunk(i.imm.bits, i.imm.shift))

\* !(u64::from(imm.bits) << (imm.shift * 16)) & size.max_value()
movn_constant(i) == AndMask(Not64(ShiftChunk(i.imm.bits, i.imm.shift)), SizeBits(i.size))

\* Faulty variant: the input constant is dropped.
movk_constant_replace(i, input_constant) == ShiftChunk(i.imm.bits, i.imm.shift)

\* input_constant | (u64::from(imm.bits) << (imm.shift * 16))
movk_constant(i, input_constant) == Or64(input_constant, ShiftChunk(i.imm.bits, i.imm.shift))

\* Faulty variant: an input without a fact or a type default is treated as
\* an unknown value instead of failing.
check_movk_unguarded(fs, i) ==
    LET input == get_fact_or_default(fs, i.rn)
    IN  IF input.ok /\ as_const(input.val, 64).some
        THEN check_constant(fs, i.rd, 64, movk_constant(i, as_const(input.val, 64).v))
        ELSE check_output(fs, i.rd, {}, Ok(MaxRange(64)))

check_movk(fs, i) ==
    LET input == get_fact_or_default(fs, i.rn)
    IN  IF ~input.ok THEN Result(input.err, fs)
        ELSE IF as_const(input.val, 64).some
             THEN check_constant(fs, i.rd, 64, movk_constant(i, as_const(input.val, 64).v))
             ELSE check_output(fs, i.rd, {}, Ok(MaxRange(64)))

\* Faulty variant: an accepted integer load sets the loaded fact on a destination
\* register that has none.
check_load_installs(fs, i) ==
    LET arm == Arm(fs, i)
    IN  CASE arm = "Args" -> Result("Ok", fs)
          [] arm = "IntLoad" ->
               LET r == check_load(fs, SomeReg(i.rd), i.checked, i.mem, AccessTy(i.op))
               IN  IF r = "Ok" /\ i.checked /\ i.mem.m \in RegModes /\ fs[i.rd] = NoFact
                   THEN Result(r, [fs EXCEPT ![i.rd] =
                                       load(addr_fact(fs, i.mem).val,
                                            addr_ty(i.mem, AccessTy(i.op))).val])
                   ELSE Result(r, fs)
          [] arm = "FpuLoad" ->
               Result(check_load(fs, NoReg, i.checked, i.mem, AccessTy(i.op)), fs)
          [] arm = "LoadPair" ->
               Result(check_load_pair(fs, i.checked, i.mem, PairSize(i.op)), fs)
          [] arm = "LoadAddr" -> Result(check_load_addr(fs, i.checked, i.rn, i.ty), fs)
          [] arm = "IntStore" ->
               Result(check_store(fs, SomeReg(i.rd), i.checked, i.mem, AccessTy(i.op)), fs)
          [] arm = "FpuStore" ->
               Result(check_store(fs, NoReg, i.checked, i.mem, AccessTy(i.op)), fs)
          [] arm = "StorePair" ->
               Result(check_store_pair(fs, i.checked, i.mem, PairSize(i.op)), fs)
          [] arm = "StoreAddr" -> Result(check_store_addr(fs, i.checked, i.rn, i.ty), fs)
          [] arm = "AddRRR" ->
               check_binop(fs, i.rd, i.rn, i.rm, LAMBDA rn, rm : add_rrr(i, rn, rm))
          [] arm = "AddImm12" -> check_unop(fs, i.rd, i.rn, LAMBDA rn : add_imm12(i, rn))
          [] arm = "AddShift" ->
               check_binop(fs, i.rd, i.rn, i.rm, LAMBDA rn, rm : add_shift(i, rn, rm))
          [] arm = "AddExtend" ->
               check_binop(fs, i.rd, i.rn, i.rm, LAMBDA rn, rm : add_extend(i, rn, rm))
          [] arm = "Lsl" -> check_unop(fs, i.rd, i.rn, LAMBDA rn : lsl_imm(i, rn))
          [] arm = "Uextend" -> check_unop(fs, i.rd, i.rn, LAMBDA rn : uextend_rule(i, rn))
          [] arm = "AluFallback" ->
               check_output(fs, i.rd, fallback_ins(i), Ok(MaxRange(SizeBits(i.size))))
          [] arm = "MovZ" -> check_constant(fs, i.rd, 64, movz_constant(i))
          [] arm = "MovN" -> check_constant(fs, i.rd, 64, movn_constant(i))
          [] arm = "MovK" -> check_movk(fs, i)
          [] arm = "DefinesFacts" -> Result("UnsupportedFact", fs)
          [] OTHER -> Result("Ok", fs)

\* check(ctx, vcode, inst_idx)
check(fs, i) ==
    LET arm == Arm(fs, i)
    IN  CASE arm = "Args" -> Result("Ok", fs)
          [] arm = "IntLoad" ->
               Result(check_load(fs, SomeReg(i.rd), i.checked, i.mem, AccessTy(i.op)), fs)
          [] arm = "FpuLoad" ->
               Result(check_load(fs, NoReg, i.checked, i.mem, AccessTy(i.op)), fs)
          [] arm = "LoadPair" ->
               Result(check_load_pair(fs, i.checked, i.mem, PairSize(i.op)), fs)
          [] arm = "LoadAddr" -> Result(check_load_addr(fs, i.checked, i.rn, i.ty), fs)
          [] arm = "IntStore" ->
               Result(check_store(fs, SomeReg(i.rd), i.checked, i.mem, AccessTy(i.op)), fs)
          [] arm = "FpuStore" ->
               Result(check_store(fs, NoReg, i.checked, i.mem, AccessTy(i.op)), fs)
          [] arm = "StorePair" ->
               Result(check_store_pair(fs, i.checked, i.mem, PairSize(i.op)), fs)
          [] arm = "StoreAddr" -> Result(check_store_addr(fs, i.checked, i.rn, i.ty), fs)
          [] arm = "AddRRR" ->
               check_binop(fs, i.rd, i.rn, i.rm, LAMBDA rn, rm : add_rrr(i, rn, rm))
          [] arm = "AddImm12" -> check_unop(fs, i.rd, i.rn, LAMBDA rn : add_imm12(i, rn))
          [] arm = "AddShift" ->
               check_binop(fs, i.rd, i.rn, i.rm, LAMBDA rn, rm : add_shift(i, rn, rm))
          [] arm = "AddExtend" ->
               check_binop(fs, i.rd, i.rn, i.rm, LAMBDA rn, rm : add_extend(i, rn, rm))
          [] arm = "Lsl" -> check_unop(fs, i.rd, i.rn, LAMBDA rn : lsl_imm(i, rn))
          [] arm = "Uextend" -> check_unop(fs, i.rd, i.rn, LAMBDA rn : uextend_rule(i, rn))
          [] arm = "AluFallback" ->
               check_output(fs, i.rd, fallback_ins(i), Ok(MaxRange(SizeBits(i.size))))
          [] arm = "MovZ" -> check_constant(fs, i.rd, 64, movz_constant(i))
          [] arm = "MovN" -> check_constant(fs, i.rd, 64, movn_constant(i))
          [] arm = "MovK" -> check_movk(fs, i)
          [] arm = "DefinesFacts" -> Result("UnsupportedFact", fs)
          [] OTHER -> Result("Ok", fs)

\* Whether check() hands the instruction to check_output.
uses_check_output(fs, i) ==
    \/ Arm(fs, i) \in {"AddRRR", "AddImm12", "AddShift", "AddExtend", "Lsl", "Uextend",
                       "AluFallback"}
    \/ /\ Arm(fs, i) = "MovK"
       /\ get_fact_or_default(fs, i.rn).ok
       /\ ~as_const(get_fact_or_default(fs, i.rn).val, 64).some

\* The slice `ins` the instruction's arm passes to check_output.
ins_of(fs, i) ==
    CASE Arm(fs, i) \in {"AddRRR", "AddShift", "AddExtend"} -> {i.rn, i.rm}
      [] Arm(fs, i) \in {"AddImm12", "Lsl", "Uextend"} -> {i.rn}
      [] Arm(fs, i) = "AluFallback" -> fallback_ins(i)
      [] OTHER -> {}

\* The value f(vcode) of the closure the instruction's arm passes to check_output.
closure(fs, i) ==
    CASE Arm(fs, i) = "AddRRR" ->
           binop_closure(fs, i.rn, i.rm, LAMBDA rn, rm : add_rrr(i, rn, rm))
      [] Arm(fs, i) = "AddImm12" -> unop_closure(fs, i.rn, LAMBDA rn : add_imm12(i, rn))
      [] Arm(fs, i) = "AddShift" ->
           binop_closure(fs, i.rn, i.rm, LAMBDA rn, rm : add_shift(i, rn, rm))
      [] Arm(fs, i) = "AddExtend" ->
           binop_closure(fs, i.rn, i.rm, LAMBDA rn, rm : add_extend(i, rn, rm))
      [] Arm(fs, i) = "Lsl" -> unop_closure(fs, i.rn, LAMBDA rn : lsl_imm(i, rn))
      [] Arm(fs, i) = "Uextend" -> unop_closure(fs, i.rn, LAMBDA rn : uextend_rule(i, rn))
      [] Arm(fs, i) = "AluFallback" -> Ok(MaxRange(SizeBits(i.size)))
      [] OTHER -> Ok(MaxRange(64))

---------------------------------------------------------------------------
(* The instructions and declared facts the model draws from.               *)

ExtendOps == {"UXTB", "UXTH", "UXTW", "UXTX", "SXTB", "SXTH", "SXTW", "SXTX"}

\* AMode values over base registers rs and index registers ms.
AModesOver(rs, ms, exts, offs) ==
    [m : {"RegReg"}, rn : rs, rm : ms]
    \cup [m : {"RegScaled"}, rn : rs, rm : ms, ty : {"I64"}]
    \cup [m : {"RegScaledExtended"}, rn : rs, rm : ms, ty : {"I32"}, extendop : exts]
    \cup [m : {"RegExtended"}, rn : rs, rm : ms, extendop : exts]
    \cup [m : {"Unscaled"}, rn : rs, simm9 : {-o : o \in offs} \cup offs]
    \cup [m : {"UnsignedOffset"}, rn : rs, uimm12 : offs]
    \cup [m : {"RegOffset"}, rn : rs, off : offs]
    \cup [m : TrustedModes]

\* PairAMode values.
PairAModesOver(rs) ==
    [m : {"SignedOffset"}, rn : rs, simm7 : {16}]
    \cup [m : {"SPPreIndexed", "SPPostIndexed"}]

LoadInstsOver(rds, ams) ==
    [op : IntLoadOps \cup FpuLoadOps, rd : rds, mem : ams, checked : BOOLEAN]

StoreInstsOver(rds, ams) ==
    [op : IntStoreOps \cup FpuStoreOps, rd : rds, mem : ams, checked : BOOLEAN]

PairInstsOver(pms) ==
    [op : LoadPairOps \cup StorePairOps, mem : pms, checked : BOOLEAN]

\* Direct address-register accesses: rt is the register loaded or stored
\* (rd of VecLoadReplicate), rn the address register.
AddrInstsOver(rts, rs) ==
    [op : LoadAddrOps \cup {"StoreRelease"}, rt : rts, rn : rs, ty : {"I8", "I64"},
     checked : BOOLEAN]

AluInstsOver(rns, rms, xms) ==
    [op : {"AluRRR"}, alu_op : {"Add", "Sub"}, size : {"Size32", "Size64"},
     rd : Regs, rn : rns, rm : rms]
    \cup [op : {"AluRRImm12"}, alu_op : {"Add", "Sub"}, size : {"Size32", "Size64"},
          rd : Regs, rn : rns, imm12 : {7}]
    \cup [op : {"AluRRRShift"}, alu_op : {"Add", "Sub"}, size : {"Size64"},
          rd : Regs, rn : rns, rm : xms,
          shiftop : {[op |-> "LSL", amt |-> 1], [op |-> "LSR", amt |-> 1]}]
    \cup [op : {"AluRRRExtend"}, alu_op : {"Add", "Sub"}, size : {"Size64"},
          rd : Regs, rn : rns, rm : xms, extendop : {"UXTX", "SXTX"}]
    \cup [op : {"AluRRImmLogic"}, alu_op : {"And"}, size : {"Size64"},
          rd : Regs, rn : rns]
    \cup [op : {"AluRRImmShift"}, alu_op : {"Lsl", "Lsr"}, size : {"Size64"},
          rd : Regs, rn : rns, immshift : {1}]

ExtendInsts ==
    {[op |-> "Extend", rd |-> rd, rn |-> rn, signed |-> sg, from_bits |-> 32,
      to_bits |-> 64, defs |-> {rd}] : rd \in Regs, rn \in Regs, sg \in BOOLEAN}

MovInstsOver(chunks, shifts, sizes) ==
    [op : {"MovWide"}, mop : {"MovZ", "MovN"}, imm : [bits : chunks, shift : shifts],
     size : sizes, rd : Regs]
    \cup [op : {"MovK"}, rd : Regs, rn : Regs, imm : [bits : chunks, shift : shifts],
          size : sizes]

\* Instructions check() has no rule for, with the registers they define.
OtherInsts == {[op |-> "Other", defs |-> d] : d \in {{}} \cup {{r} : r \in Regs}}

ArgsInsts == {[op |-> "Args"]}

\* Facts the upstream annotations may have declared on a register.
DeclFacts == {NoFact, MaxRange(64), Constant(64, U64(5)), Mem("mt0")}

---------------------------------------------------------------------------
(* The state machine: the driver calls check() once per instruction, in    *)
(* program order, and stops at the first failure.  `inst` is the           *)
(* instruction just checked (NoInst between two calls), `pre` the store    *)
(* before that call and `res` its result.                                  *)

NoInst == [op |-> "None"]

\* Option::None for the builder's bytes and path.
NoBytes == "None"

\* cfg!(feature = "wat") of the builds the model covers.
WatFeature == BOOLEAN

\* CodeBuilder::new
new(feature) == [wasm |-> NoBytes, wasm_path |-> NoBytes, wat |-> feature, feature |-> feature]

\* No method called yet on the builder.
NoCall == [op |-> "none", res |-> "none", before |-> new(TRUE), configured |-> FALSE]

InitOver(decl) ==
    /\ builder = new(TRUE)
    /\ call = NoCall
    /\ facts \in [Regs -> decl]
    /\ pre = facts
    /\ inst = NoInst
    /\ res = "None"
    /\ n = 0

\* One call check(ctx, vcode, i): the store is updated in place.
Check(i, bound) ==
    /\ inst = NoInst
    /\ n < bound
    /\ LET r == check(facts, i)
       IN  /\ facts' = r.facts
           /\ res' = r.res
    /\ pre' = facts
    /\ inst' = i
    /\ n' = n + 1
    /\ UNCHANGED <<builder, call>>

\* The driver moves on to the next instruction after a successful check.
Advance ==
    /\ inst # NoInst
    /\ res = "Ok"
    /\ inst' = NoInst
    /\ res' = "None"
    /\ pre' = facts
    /\ UNCHANGED <<facts, n, builder, call>>

(* Spec: every instruction class, two instructions deep. *)

Init == InitOver(DeclFacts)

CheckArgs == \E i \in ArgsInsts : Check(i, MaxSteps)

\* The few addressing modes Spec draws from (SpecMem draws from all of them).
FewAModes ==
    {[m |-> "RegReg", rn |-> 0, rm |-> 1], [m |-> "Unscaled", rn |-> 0, simm9 |-> 8],
     [m |-> "Label"], [m |-> "SPOffset"]}

CheckLoad == \E i \in LoadInstsOver({2}, FewAModes) : Check(i, MaxSteps)

CheckStore == \E i \in StoreInstsOver({2}, FewAModes) : Check(i, MaxSteps)

CheckPair == \E i \in PairInstsOver(PairAModesOver({0})) : Check(i, MaxSteps)

CheckAddr == \E i \in AddrInstsOver({2}, {0}) : Check(i, MaxSteps)

CheckAlu == \E i \in AluInstsOver(Regs, Regs, {0, 1}) : Check(i, MaxSteps)

CheckExtend == \E i \in ExtendInsts : Check(i, MaxSteps)

CheckMov == \E i \in MovInstsOver({4660}, {1}, {"Size64"}) : Check(i, MaxSteps)

CheckOther == \E i \in OtherInsts : Check(i, MaxSteps)

Next ==
    \/ CheckArgs
    \/ CheckLoad
    \/ CheckStore
    \/ CheckPair
    \/ CheckAddr
    \/ CheckAlu
    \/ CheckExtend
    \/ CheckMov
    \/ CheckOther
    \/ Advance

Spec == Init /\ [][Next]_vars

(* SpecMem: loads and stores over every addressing mode, one instruction   *)
(* deep (no load or store changes the store).                              *)

\* Number of check() calls explored by SpecMem.
MemSteps == 1

MemDeclFacts == {NoFact, MaxRange(64), Constant(64, U64(8)), Mem("mt0")}

MemAModes == AModesOver(Regs, {0, 2}, {"UXTX", "SXTX"}, {8})

InitMem == InitOver(MemDeclFacts)

MemLoad == \E i \in LoadInstsOver({1}, MemAModes) : Check(i, MemSteps)

MemStore == \E i \in StoreInstsOver({1}, MemAModes) : Check(i, MemSteps)

MemPair == \E i \in PairInstsOver(PairAModesOver(Regs)) : Check(i, MemSteps)

MemAddr == \E i \in AddrInstsOver({1}, Regs) : Check(i, MemSteps)

\* Extended-register Adds, the arithmetic counterpart of the extended-register
\* addressing modes.
ExtendAddInsts ==
    [op : {"AluRRRExtend"}, alu_op : {"Add"}, size : {"Size64"},
     rd : Regs, rn : Regs, rm : Regs, extendop : {"UXTX", "SXTX"}]

MemExtendAdd == \E i \in ExtendAddInsts : Check(i, MemSteps)

NextMem ==
    \/ MemLoad
    \/ MemStore
    \/ MemPair
    \/ MemAddr
    \/ MemExtendAdd
    \/ Advance

SpecMem == InitMem /\ [][NextMem]_vars

(* SpecMov: constant synthesis by MovZ / MovN / MovK sequences, starting   *)
(* from a function with no declared facts.                                 *)

\* Number of check() calls explored by SpecMov.
MovSteps == 2

MovChunks == {4660, 22136}

InitMov == InitOver({NoFact})

MovMove == \E i \in MovInstsOver(MovChunks, 0 .. 3, {"Size32", "Size64"}) : Check(i, MovSteps)

NextMov ==
    \/ MovMove
    \/ Advance

SpecMov == InitMov /\ [][NextMov]_vars

(* SpecAdd: register+register and register+immediate arithmetic over      *)
(* constants of both widths.                                               *)

\* Number of check() calls explored by SpecAdd.
AddSteps == 2

AddDeclFacts ==
    {NoFact, MaxRange(64), Constant(64, U64(20)), Constant(64, U64(21)),
     Constant(64, U64(42)), Constant(32, U64(5)), Constant(32, U64(12)), Mem("mt0")}

AddInsts ==
    [op : {"AluRRR"}, alu_op : {"Add", "Sub"}, size : {"Size32", "Size64"},
     rd : Regs, rn : Regs, rm : Regs]
    \cup [op : {"AluRRImm12"}, alu_op : {"Add", "Sub"}, size : {"Size32", "Size64"},
          rd : Regs, rn : Regs, imm12 : {7, 22}]

InitAdd == InitOver(AddDeclFacts)

AddAlu == \E i \in AddInsts : Check(i, AddSteps)

NextAdd ==
    \/ AddAlu
    \/ Advance

SpecAdd == InitAdd /\ [][NextAdd]_vars

---------------------------------------------------------------------------
(* CodeBuilder (crates/wasmtime/src/compile/code_builder.rs).  A method     *)
(* returns its Result and the builder after the call.                      *)

\* Number of method calls explored per builder.
BuilderSteps == 3

\* std::fs::read: the contents of the files on disk; NoBytes when unreadable.
read(file) ==
    CASE file = "a.wasm" -> "binary a"
      [] file = "b.wat" -> "text b"
      [] OTHER -> NoBytes

Called(r, b) == [res |-> r, builder |-> b]

\* Faulty variant: a second source replaces the first.
wasm_replace(b, wasm_bytes, wasm_path) ==
    Called("Ok", [b EXCEPT !.wasm = wasm_bytes, !.wasm_path = wasm_path])

\* CodeBuilder::wasm
wasm(b, wasm_bytes, wasm_path) ==
    IF b.wasm # NoBytes THEN Called("cannot call wasm or wasm_file twice", b)
    ELSE Called("Ok", [b EXCEPT !.wasm = wasm_bytes, !.wasm_path = wasm_path])

\* CodeBuilder::wat
wat(b, enable) ==
    IF ~b.feature /\ enable THEN Called("support for wat was disabled at compile time", b)
    ELSE Called("Ok", [b EXCEPT !.wat = enable])

\* CodeBuilder::wasm_file
wasm_file(b, file) ==
    IF b.wasm # NoBytes THEN Called("cannot call wasm or wasm_file twice", b)
    ELSE IF read(file) = NoBytes THEN Called("failed to read input file", b)
    ELSE Called("Ok", [b EXCEPT !.wasm = read(file), !.wasm_path = file])

\* CodeBuilder::wasm_binary; parsed is the outcome of wat::parse_bytes.
wasm_binary(b, parsed) ==
    IF b.wasm = NoBytes THEN Called("no wasm bytes have been configured", b)
    ELSE IF b.wat /\ b.feature THEN Called(parsed, b)
    ELSE Called("Ok", b)

\* CodeBuilder::compile_module_serialized; built is the outcome of build_artifacts.
compile_module_serialized(b, parsed, built) ==
    LET binary == wasm_binary(b, parsed)
    IN  IF binary.res # "Ok" THEN binary ELSE Called(built, b)

\* One method call on the builder, recorded with the builder before it and
\* with whether a source had been configured successfully before it.
Call(op, r) ==
    /\ n < BuilderSteps
    /\ builder' = r.builder
    /\ call' = [op |-> op, res |-> r.res, before |-> builder,
                configured |-> call.configured
                               \/ (call.op \in {"wasm", "wasm_file"} /\ call.res = "Ok")]
    /\ n' = n + 1
    /\ UNCHANGED <<facts, pre, inst, res>>

InitBuilder ==
    /\ facts = [r \in Regs |-> NoFact]
    /\ pre = facts
    /\ inst = NoInst
    /\ res = "None"
    /\ n = 0
    /\ \E feature \in WatFeature :
          /\ builder = new(feature)
          /\ call = [NoCall EXCEPT !.before = new(feature)]

CallWasm ==
    \E wasm_bytes \in {"binary a", "text b"}, wasm_path \in {NoBytes, "a.wasm"} :
        Call("wasm", wasm(builder, wasm_bytes, wasm_path))

CallWat == \E enable \in BOOLEAN : Call("wat", wat(builder, enable))

CallWasmFile ==
    \E file \in {"a.wasm", "b.wat", "missing.wasm"} :
        Call("wasm_file", wasm_file(builder, file))

CallCompile ==
    \E parsed \in {"Ok", "wat parse error"}, built \in {"Ok", "compile error"} :
        Call("compile_module_serialized", compile_module_serialized(builder, parsed, built))

NextBuilder ==
    \/ CallWasm
    \/ CallWat
    \/ CallWasmFile
    \/ CallCompile

SpecBuilder == InitBuilder /\ [][NextBuilder]_vars

(* SpecTwice: check() called a second time on an instruction it has just   *)
(* accepted, with the store the first call left.                           *)

\* Number of instructions checked by SpecTwice.
TwiceSteps == 2

\* The registers an instruction reads.
uses_of(i) ==
    (IF "rn" \in DOMAIN i THEN {i.rn} ELSE {})
    \cup (IF "rm" \in DOMAIN i THEN {i.rm} ELSE {})
    \cup (IF "mem" \in DOMAIN i /\ "rn" \in DOMAIN i.mem THEN {i.mem.rn} ELSE {})
    \cup (IF "mem" \in DOMAIN i /\ "rm" \in DOMAIN i.mem THEN {i.mem.rm} ELSE {})

\* VCode is in single-assignment form: no instruction reads the register it
\* defines.
SingleAssignment(i) ==
    ("rd" \in DOMAIN i /\ i.op \notin IntStoreOps \cup FpuStoreOps) => i.rd \notin uses_of(i)

TwiceInsts ==
    {i \in AluInstsOver(Regs, Regs, {0, 1}) \cup ExtendInsts
            \cup MovInstsOver({4660}, {0, 1}, {"Size64"})
            \cup LoadInstsOver({2}, FewAModes) \cup StoreInstsOver({2}, FewAModes)
            \cup OtherInsts :
        SingleAssignment(i)}

InitTwice == InitOver(DeclFacts)

TwiceCheck == \E i \in TwiceInsts : Check(i, TwiceSteps)

\* A second call of check() on the instruction just accepted; `inst` records
\* the instruction and the store before its first call.
Recheck ==
    /\ inst # NoInst
    /\ inst.op # "Recheck"
    /\ res = "Ok"
    /\ LET r == check(facts, inst)
       IN  /\ facts' = r.facts
           /\ res' = r.res
    /\ pre' = facts
    /\ inst' = [op |-> "Recheck", of |-> inst, before |-> pre]
    /\ UNCHANGED <<n, builder, call>>

NextTwice ==
    \/ TwiceCheck
    \/ Recheck
    \/ Advance

SpecTwice == InitTwice /\ [][NextTwice]_vars

---------------------------------------------------------------------------
(* Properties.                                                             *)

TypedLoadOps == IntLoadOps \cup FpuLoadOps
TypedStoreOps == IntStoreOps \cup FpuStoreOps
PairOps == LoadPairOps \cup StorePairOps
AddrOps == LoadAddrOps \cup {"StoreRelease"}
MemOps == TypedLoadOps \cup TypedStoreOps \cup PairOps \cup AddrOps

\* The last call went through check_output.
ViaOutput == inst # NoInst /\ uses_check_output(pre, inst)

\* Some register of the slice passed to check_output carried a propagating fact.
InputPropagates == \E r \in ins_of(pre, inst) : pre[r] # NoFact /\ propagates(pre[r])

\* C1: across every call of check(), a register that carries a fact keeps
\* exactly that fact: facts are only ever added to registers that had none.
C1_FactsNeverRetracted ==
    [][\A r \in Regs : facts[r] # NoFact => facts'[r] = facts[r]]_vars

\* C1 witness: a constant installed by a first MovZ is still in place after a
\* second check (a MovN of another value) targeted the same register.
C1_Witness ==
    /\ n = 2
    /\ inst.op = "MovWide" /\ inst.mop = "MovN"
    /\ pre[inst.rd] = Constant(64, ShiftChunk(4660, 1))
    /\ facts[inst.rd] = pre[inst.rd]

\* C2: when the destination of an instruction handled by check_output carries
\* a fact, the store is unchanged and the result is: the derivation's error if
\* it fails, Ok if the derived fact subsumes the declared one, and
\* UnsupportedFact otherwise.
C2_DeclaredCase ==
    (ViaOutput /\ pre[inst.rd] # NoFact) =>
        LET f == closure(pre, inst)
        IN  /\ facts = pre
            /\ ~f.ok => res = f.err
            /\ (f.ok /\ subsumes(f.val, pre[inst.rd])) => res = "Ok"
            /\ (f.ok /\ ~subsumes(f.val, pre[inst.rd])) => res = "UnsupportedFact"

\* C2 witness: an Add into a register declared constant whose derived sum is
\* another fact is rejected with UnsupportedFact.
C2_Witness ==
    /\ ViaOutput
    /\ Arm(pre, inst) = "AddRRR"
    /\ pre[inst.rd].k = "Const"
    /\ closure(pre, inst).ok
    /\ res = "UnsupportedFact"

\* C3: when the destination has no fact and a register of the slice passed to
\* check_output carries a propagating fact, the result is Ok; the destination
\* gets exactly the derived fact if the derivation succeeds, and the store is
\* unchanged if it fails.
C3_PropagatingCase ==
    (ViaOutput /\ pre[inst.rd] = NoFact /\ InputPropagates) =>
        LET f == closure(pre, inst)
        IN  /\ res = "Ok"
            /\ f.ok => facts = [pre EXCEPT ![inst.rd] = f.val]
            /\ ~f.ok => facts = pre

\* C3 witness: a failed derivation (MissingFact on the second operand) that is
\* accepted without a fact for the destination.
C3_Witness ==
    /\ ViaOutput
    /\ pre[inst.rd] = NoFact
    /\ InputPropagates
    /\ ~closure(pre, inst).ok
    /\ closure(pre, inst).err = "MissingFact"
    /\ res = "Ok"
    /\ facts[inst.rd] = NoFact

\* C4: when the destination has no fact and no register of the slice passed
\* to check_output carries a propagating fact, the instruction is accepted and
\* the whole store is unchanged.
C4_NonPropagatingCase ==
    (ViaOutput /\ pre[inst.rd] = NoFact /\ ~InputPropagates) =>
        (res = "Ok" /\ facts = pre)

\* C4 witness: an Add of two registers with non-propagating facts, whose sum
\* the derivation would have produced, leaves the destination without a fact.
C4_Witness ==
    /\ ViaOutput
    /\ Arm(pre, inst) = "AddRRR"
    /\ pre[inst.rd] = NoFact
    /\ pre[inst.rn] = MaxRange(64) /\ pre[inst.rm] = MaxRange(64)
    /\ closure(pre, inst).ok
    /\ res = "Ok"
    /\ facts = pre

\* C5 as stated: every load or store whose flags are not checked is accepted,
\* whatever the instruction form.
C5_UncheckedAlwaysAccepted ==
    (inst.op \in MemOps /\ ~inst.checked) => res = "Ok"

\* C5 as amended: every load or store other than a register-pair form whose
\* flags are not checked is accepted with the store unchanged, and an
\* unchecked register-pair form is rejected with UnimplementedInst.
C5_UncheckedNonPairAccepted ==
    /\ (inst.op \in MemOps \ PairOps /\ ~inst.checked) => (res = "Ok" /\ facts = pre)
    /\ (inst.op \in PairOps /\ ~inst.checked) => res = "UnimplementedInst"

\* C5 witness: an unchecked load through reg+reg addressing, accepted in a
\* function where no register carries a fact.
C5_Witness ==
    /\ inst.op \in IntLoadOps
    /\ ~inst.checked
    /\ inst.mem.m = "RegReg"
    /\ \A r \in Regs : pre[r] = NoFact
    /\ res = "Ok"

\* C6: a register-pair load or store is rejected with UnimplementedInst,
\* whatever its addressing mode, flags and the facts in the store, which it
\* leaves unchanged.
C6_PairRejected ==
    inst.op \in PairOps => (res = "UnimplementedInst" /\ facts = pre)

\* C6 witness: an unchecked pair store with a stack addressing mode is
\* rejected.
C6_Witness ==
    /\ inst.op \in StorePairOps
    /\ ~inst.checked
    /\ inst.mem.m = "SPPreIndexed"
    /\ res = "UnimplementedInst"

\* C7 as stated: every checked load or store whose addressing mode is a label,
\* a constant or a stack form is accepted.
C7_TrustedModesAccepted ==
    (inst.op \in TypedLoadOps \cup TypedStoreOps \cup PairOps
        /\ inst.checked /\ inst.mem.m \in TrustedModes) => res = "Ok"

\* C7 as amended: every checked load or store other than a register-pair form
\* whose addressing mode is a label, a constant or a stack form is accepted.
C7_TrustedModesNonPair ==
    (inst.op \in TypedLoadOps \cup TypedStoreOps
        /\ inst.checked /\ inst.mem.m \in TrustedModes) => (res = "Ok" /\ facts = pre)

\* C7 witness: a checked load at a stack offset into a register declared
\* constant is accepted although no other register carries a fact.
C7_Witness ==
    /\ inst.op \in IntLoadOps
    /\ inst.checked
    /\ inst.mem.m = "SPOffset"
    /\ pre[inst.rd].k = "Const"
    /\ \A r \in Regs \ {inst.rd} : pre[r] = NoFact
    /\ res = "Ok"

\* The base register of the last instruction's addressing mode has neither a
\* fact nor a default inferable from its type.
BaseMissing(r) == pre[r] = NoFact /\ infer_from_type(vreg_type(r)) = NoFact

\* C8 as stated: every checked load through a register-based addressing mode
\* whose base register has neither a fact nor a type default is rejected with
\* MissingFact.
C8_MissingBaseRejected ==
    (inst.op \in TypedLoadOps \cup LoadPairOps /\ inst.checked
        /\ inst.mem.m \in RegModes \cup {"SignedOffset"}
        /\ BaseMissing(inst.mem.rn)) => res = "MissingFact"

\* C8 as amended: every checked load other than a register-pair load, through
\* a register-based addressing mode or a bare address register, whose base
\* register has neither a fact nor a type default is rejected with MissingFact.
C8_MissingBaseNonPair ==
    /\ (inst.op \in TypedLoadOps /\ inst.checked /\ inst.mem.m \in RegModes
          /\ BaseMissing(inst.mem.rn)) => res = "MissingFact"
    /\ (inst.op \in LoadAddrOps /\ inst.checked /\ BaseMissing(inst.rn))
          => res = "MissingFact"

\* C8 witness: a checked reg+scaled load whose index register is a pointer
\* but whose base register has no fact and no default is rejected.
C8_Witness ==
    /\ inst.op \in TypedLoadOps
    /\ inst.checked
    /\ inst.mem.m = "RegScaled"
    /\ BaseMissing(inst.mem.rn)
    /\ res = "MissingFact"

\* The u64 whose 16-bit chunk k is c, chunk k2 is c2 and other chunks are zero.
TwoChunks(c, k, c2, k2) ==
    [j \in 1..4 |-> IF j = k + 1 THEN c ELSE IF j = k2 + 1 THEN c2 ELSE 0]

\* C9: a MovZ of chunk c at shift k into a register without a fact installs
\* Constant(64, c << 16k); a MovK of chunk c2 at another shift k2 that reads a
\* register carrying that constant, into a register without a fact, installs
\* Constant(64, (c << 16k) | (c2 << 16k2)).
C9_MovSequence ==
    /\ (inst.op = "MovWide" /\ inst.mop = "MovZ" /\ pre[inst.rd] = NoFact) =>
          /\ res = "Ok"
          /\ facts = [pre EXCEPT ![inst.rd] =
                        Constant(64, TwoChunks(inst.imm.bits, inst.imm.shift, 0, inst.imm.shift))]
    /\ (inst.op = "MovK" /\ pre[inst.rd] = NoFact) =>
          \A c \in MovChunks, k \in 0 .. 3 :
              (k # inst.imm.shift /\ pre[inst.rn] = Constant(64, TwoChunks(c, k, 0, k))) =>
                  /\ res = "Ok"
                  /\ facts = [pre EXCEPT ![inst.rd] =
                                Constant(64, TwoChunks(c, k, inst.imm.bits, inst.imm.shift))]

\* C9 witness: MovZ 0x1234 at shift 0, then MovK 0x5678 at shift 1, gives
\* the constant 0x56781234.
C9_Witness ==
    /\ n = 2
    /\ inst.op = "MovK"
    /\ inst.imm = [bits |-> 22136, shift |-> 1]
    /\ pre[inst.rn] = Constant(64, <<4660, 0, 0, 0>>)
    /\ pre[inst.rd] = NoFact
    /\ facts[inst.rd] = Constant(64, <<4660, 22136, 0, 0>>)

\* The last instruction is a reg+reg Add into a register declared range(64)
\* whose two inputs carry no fact.
AddIntoRange64 ==
    /\ inst.op = "AluRRR" /\ inst.alu_op = "Add"
    /\ pre[inst.rd] = MaxRange(64)
    /\ pre[inst.rn] = NoFact /\ pre[inst.rm] = NoFact

\* C10 as stated: a reg+reg Add into a register declared range(64) whose two
\* inputs carry no fact is accepted.
C10_AddIntoRangeAccepted == AddIntoRange64 => res = "Ok"

\* C10 as amended: such an Add is accepted exactly when both inputs have a
\* default fact inferable from their types and the sum of the two defaults is
\* derivable and subsumes range(64); it is rejected with MissingFact when an
\* input has no default, and with UnsupportedFact otherwise.
C10_AddIntoRangeByDefaults ==
    AddIntoRange64 =>
        LET dn == infer_from_type(vreg_type(inst.rn))
            dm == infer_from_type(vreg_type(inst.rm))
            sum == add(dn, dm, SizeBits(inst.size))
        IN  /\ (dn = NoFact \/ dm = NoFact) => res = "MissingFact"
            /\ (dn # NoFact /\ dm # NoFact) =>
                  IF sum # NoFact /\ subsumes(sum, MaxRange(64))
                  THEN res = "Ok" ELSE res = "UnsupportedFact"

\* C10 witness: the Add is accepted when both inputs have integer types.
C10_Witness ==
    /\ AddIntoRange64
    /\ inst.rn # inst.rm
    /\ res = "Ok"

\* The last instruction is an Add (register+register or register+immediate).
IsAdd == inst.op \in {"AluRRR", "AluRRImm12"} /\ inst.alu_op = "Add"

\* C11: an Add whose destination is declared Constant(w, d) and whose derived
\* sum is Constant(w, s) with s different from d is rejected with
\* UnsupportedFact, and the store (the declared fact included) is unchanged.
C11_WrongConstantRejected ==
    (IsAdd /\ pre[inst.rd].k = "Const") =>
        LET f == closure(pre, inst)
        IN  (f.ok /\ f.val.k = "Const" /\ f.val.w = pre[inst.rd].w
                /\ f.val.v # pre[inst.rd].v)
               => (res = "UnsupportedFact" /\ facts = pre)

\* C11 witness: declared constant(64, 42), inputs 20 and 21, derived sum 41.
C11_Witness ==
    /\ inst.op = "AluRRR" /\ inst.alu_op = "Add" /\ inst.size = "Size64"
    /\ pre[inst.rd] = Constant(64, U64(42))
    /\ pre[inst.rn] = Constant(64, U64(20))
    /\ pre[inst.rm] = Constant(64, U64(21))
    /\ closure(pre, inst) = Ok(Constant(64, U64(41)))
    /\ res = "UnsupportedFact"
    /\ facts[inst.rd] = Constant(64, U64(42))

\* The last instruction matches none of check()'s rules: an instruction of
\* another kind, a sign extension, or a zero extension of a register without
\* a fact.
MatchesNoRule ==
    \/ inst.op = "Other"
    \/ inst.op = "Extend" /\ (inst.signed \/ pre[inst.rn] = NoFact)

\* C12: an instruction that matches none of check()'s rules is rejected with
\* UnsupportedFact when a register it defines carries a fact, and is accepted
\* otherwise; the store is unchanged either way.
C12_UnrecognizedDefault ==
    MatchesNoRule =>
        /\ facts = pre
        /\ IF \E r \in inst.defs : pre[r] # NoFact
           THEN res = "UnsupportedFact" ELSE res = "Ok"

\* C12 witness: a sign extension into a register with a declared fact is
\* rejected.
C12_Witness ==
    /\ inst.op = "Extend" /\ inst.signed
    /\ pre[inst.rd] # NoFact
    /\ res = "UnsupportedFact"
    /\ facts = pre

\* The last instruction is a constant move whose constant check() hands to
\* check_constant: a MovZ, a MovN, or a MovK reading a 64-bit constant.
ViaConstant ==
    \/ inst.op = "MovWide"
    \/ /\ inst.op = "MovK"
       /\ get_fact_or_default(pre, inst.rn).ok
       /\ as_const(get_fact_or_default(pre, inst.rn).val, 64).some

\* The last instruction is a checked integer load through a register-based
\* addressing mode whose address fact is derivable and proves the access in
\* bounds, so that a loaded fact is compared with the destination's fact.
LoadCompared ==
    /\ inst.op \in IntLoadOps
    /\ inst.checked
    /\ inst.mem.m \in RegModes
    /\ addr_fact(pre, inst.mem).ok
    /\ load(addr_fact(pre, inst.mem).val, addr_ty(inst.mem, AccessTy(inst.op))).ok

\* C13: when the destination register of an instruction carries a Mem fact,
\* the comparison of the derived fact with it passes whatever the derived fact
\* is: arithmetic whose derivation succeeds, constant moves and checked loads
\* whose access is in bounds are all accepted, with the store unchanged.
C13_StatedMemAlwaysPasses ==
    /\ (ViaOutput /\ pre[inst.rd].k = "Mem" /\ closure(pre, inst).ok)
          => (res = "Ok" /\ facts = pre)
    /\ (ViaConstant /\ pre[inst.rd].k = "Mem") => (res = "Ok" /\ facts = pre)
    /\ (LoadCompared /\ pre[inst.rd].k = "Mem") => (res = "Ok" /\ facts = pre)

\* C13 witness: an Add of two constants into a register stated to be a
\* pointer is accepted although the derived fact is a constant.
C13_Witness ==
    /\ inst.op = "AluRRR" /\ inst.alu_op = "Add"
    /\ pre[inst.rd].k = "Mem"
    /\ closure(pre, inst).ok
    /\ closure(pre, inst).val.k = "Const"
    /\ res = "Ok"

\* C14: once a call of wasm() or wasm_file() has succeeded, every later call
\* of wasm() or wasm_file() returns an error and leaves the builder's bytes
\* and path unchanged; compile_module_serialized on a builder without a
\* source returns an error.
C14_SingleSource ==
    /\ (call.op \in {"wasm", "wasm_file"} /\ call.configured) =>
          /\ call.res # "Ok"
          /\ builder.wasm = call.before.wasm
          /\ builder.wasm_path = call.before.wasm_path
    /\ (call.op = "compile_module_serialized" /\ ~call.configured) => call.res # "Ok"

\* C14 witness: after wasm() configured bytes without a path, wasm_file() of
\* a readable file is refused and the path is still absent.
C14_Witness ==
    /\ call.op = "wasm_file"
    /\ call.configured
    /\ call.before.wasm = "binary a"
    /\ call.before.wasm_path = NoBytes
    /\ call.res = "cannot call wasm or wasm_file twice"
    /\ builder = call.before

\* C15 as stated: a MovK whose input register carries Constant(64, v), into a
\* register without a fact, installs the constant v with its 16-bit chunk at
\* the immediate's shift index replaced by the immediate's chunk and every
\* other chunk preserved.
C15_MovKOverwritesChunk ==
    (inst.op = "MovK" /\ pre[inst.rn].k = "Const" /\ pre[inst.rn].w = 64
        /\ pre[inst.rd] = NoFact) =>
        /\ res = "Ok"
        /\ facts[inst.rd] =
              Constant(64, [pre[inst.rn].v EXCEPT ![inst.imm.shift + 1] = inst.imm.bits])

\* The last instruction is a MovK whose input register does not carry a
\* 64-bit constant.
MovKUnknownInput ==
    inst.op = "MovK" /\ ~(pre[inst.rn].k = "Const" /\ pre[inst.rn].w = 64)

\* C16 as stated: a MovK whose input register does not carry a 64-bit
\* constant (another fact, or no fact at all) does not fail on its input.
C16_MovKNeverFailsOnInput == MovKUnknownInput => res # "MissingFact"

\* C16 as amended: such a MovK is rejected with MissingFact when its input
\* register has neither a fact nor a type default; otherwise the maximal
\* 64-bit range is the derived fact: it is compared with a fact stated on the
\* destination, and a destination without a fact is accepted.  The store is
\* unchanged in every case.
C16_MovKUnknownInput ==
    MovKUnknownInput =>
        /\ facts = pre
        /\ IF BaseMissing(inst.rn) THEN res = "MissingFact"
           ELSE IF pre[inst.rd] = NoFact THEN res = "Ok"
           ELSE IF pre[inst.rd].k = "Mem" \/ subsumes(MaxRange(64), pre[inst.rd])
                THEN res = "Ok" ELSE res = "UnsupportedFact"

\* C16 witness: the input has no fact but a type default, and the maximal
\* 64-bit range validates the range stated on the destination.
C16_Witness ==
    /\ MovKUnknownInput
    /\ pre[inst.rn] = NoFact
    /\ ~BaseMissing(inst.rn)
    /\ pre[inst.rd] = MaxRange(64)
    /\ res = "Ok"

\* (NOT (c << 16k)) AND maxValue(size), chunk by chunk.
MovNExpected(c, k, size) ==
    [j \in 1..4 |-> IF size = "Size32" /\ j > 2 THEN 0
                    ELSE IF j = k + 1 THEN 65535 - c
                    ELSE 65535]

\* C17: a MovN of chunk c at shift index k with operand size s, into a
\* register without a fact, installs Constant(64, (NOT (c << 16k)) AND
\* maxValue(s)): the width is 64 for both sizes, the upper 32 bits are zero
\* for the 32-bit size and every bit outside chunk k is one for the 64-bit
\* size.
C17_MovNConstant ==
    (inst.op = "MovWide" /\ inst.mop = "MovN" /\ pre[inst.rd] = NoFact) =>
        /\ res = "Ok"
        /\ facts = [pre EXCEPT ![inst.rd] =
                      Constant(64, MovNExpected(inst.imm.bits, inst.imm.shift, inst.size))]

\* C17 witness: a 32-bit MovN of 0x1234 at shift 0 gives 0x0000_0000_FFFF_EDCB.
C17_Witness ==
    /\ inst.op = "MovWide" /\ inst.mop = "MovN" /\ inst.size = "Size32"
    /\ inst.imm = [bits |-> 4660, shift |-> 0]
    /\ pre[inst.rd] = NoFact
    /\ facts[inst.rd] = Constant(64, <<60875, 65535, 0, 0>>)

\* The last instruction is an arithmetic/logic instruction without a rule of
\* its own: a non-Add AluRRR, AluRRImm12, AluRRRShift or AluRRRExtend, an
\* AluRRImmLogic, or a non-Lsl AluRRImmShift.
FallbackAlu ==
    \/ inst.op \in {"AluRRR", "AluRRImm12", "AluRRRShift", "AluRRRExtend"}
          /\ inst.alu_op # "Add"
    \/ inst.op = "AluRRImmLogic"
    \/ inst.op = "AluRRImmShift" /\ inst.alu_op # "Lsl"

\* The input registers of the last (arithmetic/logic) instruction.
AluInputs ==
    IF inst.op \in {"AluRRR", "AluRRRShift", "AluRRRExtend"} THEN {inst.rn, inst.rm}
    ELSE {inst.rn}

\* C18 as stated: when such an instruction's destination has no fact and one
\* of its input registers carries a propagating fact, the destination carries
\* the maximal range of the instruction's width afterwards.
C18_FallbackInstallsRange ==
    (FallbackAlu /\ pre[inst.rd] = NoFact
        /\ \E r \in AluInputs : pre[r] # NoFact /\ propagates(pre[r]))
       => facts[inst.rd] = MaxRange(SizeBits(inst.size))

\* C18 as amended: such an instruction never changes the store.  With a
\* destination without a fact it is accepted whatever its inputs carry; with
\* a fact stated on the destination, the maximal range of the instruction's
\* width is compared with it.
C18_FallbackOnlyValidates ==
    FallbackAlu =>
        /\ facts = pre
        /\ IF pre[inst.rd] = NoFact THEN res = "Ok"
           ELSE IF pre[inst.rd].k = "Mem"
                   \/ subsumes(MaxRange(SizeBits(inst.size)), pre[inst.rd])
                THEN res = "Ok" ELSE res = "UnsupportedFact"

\* C18 witness: a subtraction from a constant into a register without a fact
\* is accepted and the register still has no fact.
C18_Witness ==
    /\ inst.op = "AluRRR" /\ inst.alu_op = "Sub"
    /\ pre[inst.rd] = NoFact
    /\ pre[inst.rn].k = "Const"
    /\ res = "Ok"
    /\ facts[inst.rd] = NoFact

\* The fact a derivation reads for register r: its fact in the store, or the
\* default of its type.
FactOrDefault(r) == IF pre[r] # NoFact THEN pre[r] ELSE infer_from_type(vreg_type(r))

\* C19: a register+register Add whose destination carries a fact always
\* attempts the sum: it is rejected with MissingFact when an input has
\* neither a fact nor a type default, and with UnsupportedFact when both
\* inputs have one but the algebra derives no sum; the store is unchanged.
C19_AddAlwaysAttempted ==
    (inst.op = "AluRRR" /\ inst.alu_op = "Add" /\ pre[inst.rd] # NoFact) =>
        /\ facts = pre
        /\ (BaseMissing(inst.rn) \/ BaseMissing(inst.rm)) => res = "MissingFact"
        /\ (~BaseMissing(inst.rn) /\ ~BaseMissing(inst.rm)
               /\ add(FactOrDefault(inst.rn), FactOrDefault(inst.rm),
                      SizeBits(inst.size)) = NoFact)
              => res = "UnsupportedFact"

\* C19 witness: the sum of a pointer and a range is not derivable, and the
\* Add is rejected although its destination only states the maximal range.
C19_Witness ==
    /\ inst.op = "AluRRR" /\ inst.alu_op = "Add" /\ inst.size = "Size64"
    /\ pre[inst.rd] = MaxRange(64)
    /\ pre[inst.rn].k = "Mem"
    /\ pre[inst.rm] = MaxRange(64)
    /\ res = "UnsupportedFact"

\* C20: for a register+immediate Add of width w whose input has a fact or a
\* type default, the derived fact is add(fact(rn), Constant(w, imm12), w):
\* it is installed on a destination without a fact when rn's fact propagates
\* (nothing is installed when the sum is not derivable), and compared with a
\* fact stated on the destination.  With rn = Constant(32, 5), immediate 7
\* and w = 32 the destination gets Constant(32, 12).
C20_AddImmediate ==
    (inst.op = "AluRRImm12" /\ inst.alu_op = "Add" /\ ~BaseMissing(inst.rn)) =>
        LET w == SizeBits(inst.size)
            sum == add(FactOrDefault(inst.rn), Constant(w, U64(inst.imm12)), w)
        IN  /\ (pre[inst.rd] = NoFact /\ pre[inst.rn] # NoFact /\ propagates(pre[inst.rn])) =>
                  /\ res = "Ok"
                  /\ facts = IF sum # NoFact THEN [pre EXCEPT ![inst.rd] = sum] ELSE pre
            /\ (pre[inst.rd] # NoFact /\ sum = NoFact) => res = "UnsupportedFact"
            /\ (pre[inst.rd] # NoFact /\ sum # NoFact) =>
                  (res = "Ok" <=> (pre[inst.rd].k = "Mem" \/ subsumes(sum, pre[inst.rd])))
            /\ (w = 32 /\ pre[inst.rn] = Constant(32, U64(5)) /\ inst.imm12 = 7
                   /\ pre[inst.rd] = NoFact)
                  => facts[inst.rd] = Constant(32, U64(12))

\* C20 witness: a 32-bit Add of 7 to a register holding constant(32, 5), into
\* a register without a fact, installs constant(32, 12).
C20_Witness ==
    /\ inst.op = "AluRRImm12" /\ inst.alu_op = "Add" /\ inst.size = "Size32"
    /\ inst.imm12 = 7
    /\ pre[inst.rn] = Constant(32, U64(5))
    /\ pre[inst.rd] = NoFact
    /\ res = "Ok"
    /\ facts[inst.rd] = Constant(32, U64(12))

\* The last instruction is an Add or Lsl with a guarded rule (shifted-register
\* Add, extended-register Add, shift-left by immediate) one of whose register
\* operands carries no fact in the store.
GuardFails ==
    \/ /\ inst.op = "AluRRRShift" /\ inst.alu_op = "Add" /\ inst.shiftop.op = "LSL"
       /\ (pre[inst.rn] = NoFact \/ pre[inst.rm] = NoFact)
    \/ /\ inst.op = "AluRRRExtend" /\ inst.alu_op = "Add"
       /\ (pre[inst.rn] = NoFact \/ pre[inst.rm] = NoFact)
    \/ /\ inst.op = "AluRRImmShift" /\ inst.alu_op = "Lsl"
       /\ pre[inst.rn] = NoFact

\* C21: the guarded rules are not attempted when a register operand carries
\* no fact in the store, even if its type has a default.  Such an Add or Lsl
\* gets the fallback's outcome (the maximal range of its width compared with
\* a fact stated on the destination, nothing installed) and never fails with
\* MissingFact; such a zero-extend is not derived either.
C21_GuardedRules ==
    /\ GuardFails =>
          /\ facts = pre
          /\ res # "MissingFact"
          /\ IF pre[inst.rd] = NoFact THEN res = "Ok"
             ELSE IF pre[inst.rd].k = "Mem"
                     \/ subsumes(MaxRange(SizeBits(inst.size)), pre[inst.rd])
                  THEN res = "Ok" ELSE res = "UnsupportedFact"
    /\ (inst.op = "Extend" /\ ~inst.signed /\ pre[inst.rn] = NoFact) =>
          (facts = pre /\ res # "MissingFact")

\* C21 witness: a shifted-register Add whose first operand has neither a
\* fact nor a type default, and whose second operand has a fact, is accepted
\* against the range stated on its destination.
C21_Witness ==
    /\ inst.op = "AluRRRShift" /\ inst.alu_op = "Add" /\ inst.shiftop.op = "LSL"
    /\ BaseMissing(inst.rn)
    /\ pre[inst.rm] # NoFact
    /\ pre[inst.rd] = MaxRange(64)
    /\ res = "Ok"

\* The last instruction is a checked typed load or store.
CheckedAccess == inst.op \in TypedLoadOps \cup TypedStoreOps /\ inst.checked

\* The fact of the destination (load) or stored register (store) that check()
\* hands to check_addr for the last instruction.
AccessOp ==
    [kind |-> IF inst.op \in TypedLoadOps THEN "Load" ELSE "Store",
     fact |-> IF inst.op \in IntLoadOps \cup IntStoreOps THEN pre[inst.rd] ELSE NoFact]

\* C22: the UXTX mode leaves a fact unchanged and the SXTX mode never yields
\* one.  A checked access through reg+extended addressing with UXTX has the
\* result of the same access through reg+reg addressing; a checked access
\* through an extended-register mode with SXTX whose registers have a fact
\* (or a type default) is rejected with UnsupportedFact; and an
\* extended-register Add with SXTX whose operands carry facts, into a
\* destination that carries a fact, is rejected with UnsupportedFact.
C22_ExtendAsymmetry ==
    /\ (CheckedAccess /\ inst.mem.m = "RegExtended" /\ inst.mem.extendop = "UXTX") =>
          res = check_addr(pre, TRUE, [m |-> "RegReg", rn |-> inst.mem.rn, rm |-> inst.mem.rm],
                           AccessTy(inst.op), AccessOp)
    /\ (CheckedAccess /\ inst.mem.m \in {"RegExtended", "RegScaledExtended"}
          /\ inst.mem.extendop = "SXTX"
          /\ ~BaseMissing(inst.mem.rn) /\ ~BaseMissing(inst.mem.rm))
         => (res = "UnsupportedFact" /\ facts = pre)
    /\ (inst.op = "AluRRRExtend" /\ inst.alu_op = "Add" /\ inst.extendop = "SXTX"
          /\ pre[inst.rn] # NoFact /\ pre[inst.rm] # NoFact /\ pre[inst.rd] # NoFact)
         => (res = "UnsupportedFact" /\ facts = pre)

\* C22 witness: a checked load through reg+extended addressing with SXTX,
\* from a pointer and a constant index that reg+reg addressing would accept,
\* is rejected.
C22_Witness ==
    /\ inst.op \in IntLoadOps /\ inst.checked
    /\ inst.mem.m = "RegExtended" /\ inst.mem.extendop = "SXTX"
    /\ pre[inst.mem.rn].k = "Mem"
    /\ pre[inst.mem.rm].k = "Const"
    /\ check_addr(pre, TRUE, [m |-> "RegReg", rn |-> inst.mem.rn, rm |-> inst.mem.rm],
                  AccessTy(inst.op), AccessOp) = "Ok"
    /\ res = "UnsupportedFact"

\* C23 as stated: a checked direct load is accepted only if the fact the
\* algebra's load returns for the address register's fact subsumes the fact
\* (if any) of the loaded register; a checked direct store whose address
\* register has a fact or a type default has the result of the algebra's
\* store given the fact (if any) of the stored register.
C23_DirectAccessAsScalar ==
    /\ (inst.op \in LoadAddrOps /\ inst.checked /\ res = "Ok") =>
          LET loaded == load(FactOrDefault(inst.rn), inst.ty)
          IN  loaded.ok /\ subsumes_fact_optionals(loaded.val, pre[inst.rt])
    /\ (inst.op = "StoreRelease" /\ inst.checked /\ ~BaseMissing(inst.rn)) =>
          LET stored == store(FactOrDefault(inst.rn), inst.ty, pre[inst.rt])
          IN  res = IF stored.ok THEN "Ok" ELSE stored.err

\* The last instruction is a checked typed load through a register-based
\* addressing mode.
CheckedRegLoad == inst.op \in TypedLoadOps /\ inst.checked /\ inst.mem.m \in RegModes

\* The algebra's load for the last instruction: the address fact of its
\* addressing mode read at the type the access is checked at.
LoadedFact == load(addr_fact(pre, inst.mem).val, addr_ty(inst.mem, AccessTy(inst.op)))

\* C24 as stated: every checked typed load through a register-based
\* addressing mode is accepted only if the algebra's load succeeds and the
\* loaded fact subsumes the fact (if any) of the destination register.
C24_LoadSubsumesDestination ==
    (CheckedRegLoad /\ res = "Ok") =>
        /\ addr_fact(pre, inst.mem).ok
        /\ LoadedFact.ok
        /\ subsumes_fact_optionals(LoadedFact.val, pre[inst.rd])

\* C24 as amended: a checked integer load through a register-based
\* addressing mode is accepted exactly when the address fact is derivable, the
\* algebra's load succeeds and the loaded fact subsumes the fact (if any) of
\* the destination register; a checked float or vector load is accepted
\* exactly when the address fact is derivable and the load succeeds, whatever
\* fact its destination carries.  The store is unchanged.
C24_IntegerLoadSubsumesDestination ==
    CheckedRegLoad =>
        /\ facts = pre
        /\ IF inst.op \in IntLoadOps
           THEN res = "Ok" <=>
                   /\ addr_fact(pre, inst.mem).ok
                   /\ LoadedFact.ok
                   /\ subsumes_fact_optionals(LoadedFact.val, pre[inst.rd])
           ELSE res = "Ok" <=> (addr_fact(pre, inst.mem).ok /\ LoadedFact.ok)

\* C24 witness: an integer load through a pointer plus a constant index is
\* in bounds, but the loaded range does not subsume the constant stated on
\* the destination, and the load is rejected.
C24_Witness ==
    /\ inst.op \in IntLoadOps /\ inst.checked
    /\ inst.mem.m = "RegReg"
    /\ pre[inst.mem.rn].k = "Mem"
    /\ pre[inst.mem.rm].k = "Const"
    /\ LoadedFact.ok
    /\ pre[inst.rd].k = "Const"
    /\ res = "UnsupportedFact"

\* The last instruction is a checked typed store through a register-based
\* addressing mode.
CheckedRegStore == inst.op \in TypedStoreOps /\ inst.checked /\ inst.mem.m \in RegModes

\* The algebra's store for the last instruction, given the stored fact sf.
StoreResult(sf) ==
    store(addr_fact(pre, inst.mem).val, addr_ty(inst.mem, AccessTy(inst.op)), sf)

\* C25 as stated: every checked typed store through a register-based
\* addressing mode is accepted exactly when the address fact is derivable and
\* the algebra's store, given the fact (if any) of the stored register,
\* succeeds.
C25_StorePassesRegisterFact ==
    CheckedRegStore =>
        (res = "Ok" <=> (addr_fact(pre, inst.mem).ok /\ StoreResult(pre[inst.rd]).ok))

\* C25 as amended: a checked integer store is accepted exactly when the
\* address fact is derivable and the algebra's store, given the fact (if any)
\* of the stored register, succeeds; a checked float or vector store is
\* accepted exactly when the address fact is derivable and the algebra's
\* store, given no stored fact, succeeds.  The store of facts is unchanged.
C25_IntegerStorePassesRegisterFact ==
    CheckedRegStore =>
        /\ facts = pre
        /\ IF inst.op \in IntStoreOps
           THEN res = "Ok" <=>
                   (addr_fact(pre, inst.mem).ok /\ StoreResult(pre[inst.rd]).ok)
           ELSE res = "Ok" <=> (addr_fact(pre, inst.mem).ok /\ StoreResult(NoFact).ok)

\* C25 witness: an integer store to an address in bounds is rejected because
\* of the fact of the stored register, which the algebra's store refuses.
C25_Witness ==
    /\ inst.op \in IntStoreOps /\ inst.checked
    /\ inst.mem.m \in RegModes
    /\ addr_fact(pre, inst.mem).ok
    /\ StoreResult(NoFact).ok
    /\ pre[inst.rd] # NoFact
    /\ ~StoreResult(pre[inst.rd]).ok
    /\ res = "UnsupportedFact"

\* The addressing modes whose derivation C26 spells out.
DerivedModes == {"RegReg", "RegScaled", "RegScaledExtended", "RegExtended",
                 "Unscaled", "UnsignedOffset"}

\* The modes among them that take an index register.
IndexModes == {"RegReg", "RegScaled", "RegScaledExtended", "RegExtended"}

\* The address fact the last instruction's addressing mode calls for, written
\* as one expression of the algebra over the operands' facts or type defaults
\* (every operation of the algebra yields no fact on an operand without one).
ExpectedAddr ==
    LET m == inst.mem
        rn == FactOrDefault(m.rn)
    IN  CASE m.m = "RegReg" -> add(rn, FactOrDefault(m.rm), 64)
          [] m.m = "RegScaled" ->
               add(rn, scale(FactOrDefault(m.rm), 64, TyBytes(m.ty)), 64)
          [] m.m = "RegScaledExtended" ->
               add(rn, scale(extend_fact(FactOrDefault(m.rm), m.extendop), 64,
                             TyBytes(m.ty)), 64)
          [] m.m = "RegExtended" ->
               add(rn, extend_fact(FactOrDefault(m.rm), m.extendop), 64)
          [] m.m = "Unscaled" -> offset(rn, 64, m.simm9)
          [] OTHER -> offset(rn, 64, m.uimm12)

C27_MemoryOpsKeepFacts == inst.op \in MemOps => facts = pre

\* C27 witness: a checked integer load is accepted through an address whose
\* index carries a propagating fact, into a destination without a fact, and
\* the destination still has none.
C27_Witness ==
    /\ inst.op \in IntLoadOps /\ inst.checked
    /\ inst.mem.m = "RegReg"
    /\ pre[inst.mem.rn].k = "Mem"
    /\ pre[inst.mem.rm] # NoFact /\ propagates(pre[inst.mem.rm])
    /\ pre[inst.rd] = NoFact
    /\ LoadedFact.ok
    /\ res = "Ok"
    /\ facts[inst.rd] = NoFact

\* C28: a call of check() that returns an error (MissingFact, UnsupportedFact
\* or UnimplementedInst) leaves the store of facts as it was; the store
\* changes only on a call that returns success, and then only at the
\* instruction's destination register.
C28_ErrorsKeepFacts ==
    inst # NoInst =>
        /\ res # "Ok" => facts = pre
        /\ facts # pre =>
               /\ res = "Ok"
               /\ "rd" \in DOMAIN inst
               /\ \A r \in Regs \ {inst.rd} : facts[r] = pre[r]

\* C28 witness: a MovZ into a register declared to hold another constant is
\* rejected, and the register keeps the declared constant.
C28_Witness ==
    /\ inst.op = "MovWide" /\ inst.mop = "MovZ"
    /\ pre[inst.rd].k = "Const"
    /\ pre[inst.rd] # Constant(64, movz_constant(inst))
    /\ res = "UnsupportedFact"
    /\ facts = pre

\* C29: an Extend that sign-extends, or that zero-extends an operand without a
\* fact, is handled as an instruction without a rule, not by the maximal-range
\* fallback of the ALU forms: it is rejected with UnsupportedFact when its
\* destination carries a fact and accepted otherwise, and the store of facts
\* is unchanged either way.
C29_ExtendWithoutRule ==
    (inst.op = "Extend" /\ (inst.signed \/ pre[inst.rn] = NoFact)) =>
        /\ facts = pre
        /\ res = IF pre[inst.rd] # NoFact THEN "UnsupportedFact" ELSE "Ok"

\* C29 witness: a zero-extension of an operand without a fact into a register
\* declared to hold any 64-bit value, which the maximal-range fallback would
\* accept, is rejected.
C29_Witness ==
    /\ inst.op = "Extend" /\ ~inst.signed
    /\ pre[inst.rn] = NoFact
    /\ pre[inst.rd] = MaxRange(64)
    /\ check_subsumes(MaxRange(inst.to_bits), pre[inst.rd]) = "Ok"
    /\ res = "UnsupportedFact"
    /\ facts = pre

\* C30: a second call of check() on an instruction the first call accepted,
\* with the store the first call left, accepts it again and leaves the store
\* unchanged.
C30_RecheckIdempotent == inst.op = "Recheck" => (res = "Ok" /\ facts = pre)

\* C30 witness: the first call set a fact on a destination that had none, and
\* the second call accepted the instruction against that fact.
C30_Witness ==
    /\ inst.op = "Recheck"
    /\ inst.of.op \in AluOps
    /\ inst.before[inst.of.rd] = NoFact
    /\ pre[inst.of.rd] # NoFact
    /\ res = "Ok"
    /\ facts = pre

=============================================================================
